---------------------------- MODULE Spec2Model ----------------------------
(***************************************************************************)
(* Model of the TaskView component (frontend/src/components/TaskView.js):  *)
(* the week-window date arithmetic and the synchronisation of the          *)
(* tasksByDate state with the remote task service.                         *)
(*                                                                         *)
(* A JavaScript Date is modelled by its time value in minutes since the    *)
(* epoch (the component never looks below the day, and the viewer's zone   *)
(* offsets are whole minutes).  A "YYYY-MM-DD" string is modelled by the   *)
(* triple <<year, month (1..12), day>> of the numbers it spells.  The      *)
(* viewer's time zone is a fixed offset tz, in minutes east of UTC (no      *)
(* daylight-saving change inside a behaviour).                             *)
(*                                                                         *)
(* A remote add, toggle or delete is a call in ops: the service handles it *)
(* in one step and the handler resumes with the settled promise in a later *)
(* one, so responses arrive in any order.  A getTasksByDate request is     *)
(* outstanding from the step that issues it to the step that settles it;   *)
(* the service's list is read when it settles.                             *)
(*                                                                         *)
(* The updaters of toggle and delete throw when the state has no entry for *)
(* their date.  React runs an updater while rendering, outside the         *)
(* handler's try/catch, and unmounts the tree on the error: crashed, after *)
(* which the component takes no further step.                              *)
(*                                                                         *)
(* Three specifications: SpecDate applies the date helpers to bounded      *)
(* reference dates and zones; Spec is the component with the remote        *)
(* service; SpecLive is Spec for one user script, with the fairness that   *)
(* every getTasksByDate request settles.                                   *)
(***************************************************************************)
EXTENDS Integers, Sequences, FiniteSets, TLC

VARIABLES
    tz,            \* viewer's zone offset, minutes east of UTC (environment)
    selectedDate,  \* CalendarContext.selectedDate, a YYYY-MM-DD string
    newTask,       \* useState("") : text of the pending task name
    tasksByDate,   \* useState({}) : date string -> sequence of tasks
    weekDates,     \* the rows of the current render: each weekDates[i] with its formattedDate
    crashed,       \* a state updater threw while rendering: the tree is unmounted
    fetches,       \* running fetchTasksForWeek calls, oldest first
    ops,           \* running handleAddTask/handleToggleCompletion/handleDeleteTask calls
                   \* (gen is history: the fetches completed when the call was made)
    srvTasks,      \* the remote service's tasks, in creation order
    srvNextId,     \* the next identifier the remote service assigns
    failures,      \* number of remote calls that have failed in transit so far
    calls,         \* number of add/toggle/delete calls issued so far
    selects,       \* number of setSelectedDate calls so far
    last,          \* history: the last handler continuation that ran, with the state before it
    hOrig,         \* date harness: the reference date the harness started from
    hArg,          \* date harness: its current reference date
    hTrace,        \* date harness: the navigations applied so far
    hWeek          \* date harness: the formatted week window rendered for hArg

vars == <<tz, selectedDate, newTask, tasksByDate, weekDates, crashed, fetches, ops,
          srvTasks, srvNextId, failures, calls, selects, last,
          hOrig, hArg, hTrace, hWeek>>

compVars == <<selectedDate, newTask, tasksByDate, weekDates, crashed, fetches, ops,
              srvTasks, srvNextId, failures, calls, selects, last>>

harnessVars == <<hOrig, hArg, hTrace, hWeek>>

-----------------------------------------------------------------------------
(* Bounds *)

\* Viewer zone offsets explored, minutes east of UTC.
TZOffsets == {0 - 720, 0 - 300, 0, 60, 330, 840}

\* First day (days since 1970-01-01) and number of further days of the
\* reference dates the date harness starts from: 2023-12-18 .. 2024-07-05.
HFirstDay == 19709
HSpan == 200

\* Longest navigation sequence the date harness applies.
MaxNav == 2

-----------------------------------------------------------------------------
(* Calendar arithmetic of ECMAScript Date *)

MinPerDay == 24 * 60

\* The element of a one-element set.  { e(x) : x \in {v} } inside Once binds
\* x to the value of v, so that v is computed once however often e uses it
\* (a JavaScript local variable).
Once(S) == CHOOSE r \in S : TRUE

\* Day number (days since 1970-01-01) of the proleptic Gregorian date
\* year-month-day, month in 1..12 (ECMAScript MakeDay for an in-range month).
DaysFromCivil(year, month, day) ==
    Once({ LET yy  == IF m <= 2 THEN y - 1 ELSE y
               era == yy \div 400
               yoe == yy - era * 400
               mp  == IF m > 2 THEN m - 3 ELSE m + 9
               doy == (153 * mp + 2) \div 5 + d - 1
               doe == yoe * 365 + yoe \div 4 - yoe \div 100 + doy
           IN  era * 146097 + doe - 719468 :
               y \in {year}, m \in {month}, d \in {day} })

\* <<year, month (1..12), day>> of a day number (YearFromTime, MonthFromTime,
\* DateFromTime).
CivilFromDays(z) ==
    Once({ LET era == zz \div 146097
               doe == zz - era * 146097
               yoe == (doe - doe \div 1460 + doe \div 36524 - doe \div 146096) \div 365
               doy == doe - (365 * yoe + yoe \div 4 - yoe \div 100)
               mp  == (5 * doy + 2) \div 153
               d   == doy - (153 * mp + 2) \div 5 + 1
               m   == IF mp < 10 THEN mp + 3 ELSE mp - 9
               y   == yoe + era * 400 + (IF m <= 2 THEN 1 ELSE 0)
           IN  <<y, m, d>> : zz \in {z + 719468} })

\* ECMAScript MakeDay(year, month, date): month is 0-based and may overflow,
\* date may lie outside the month.
MakeDay(year, month, date) ==
    DaysFromCivil(year + month \div 12, (month % 12) + 1, 1) + date - 1

\* Date.UTC(year, month, date): the time value of that UTC midnight.
DateUTC(year, month, date) == MakeDay(year, month, date) * MinPerDay

\* new Date("YYYY-MM-DD"): a date-only ISO string is parsed as UTC midnight.
NewDate(str) == DateUTC(str[1], str[2] - 1, str[3])

\* toISOString().split('T')[0]: the UTC calendar date of a time value.
ISODate(t) == CivilFromDays(t \div MinPerDay)

\* LocalTime(t): the time value shifted to the viewer's zone.
LocalTime(t) == t + tz

getFullYear(date) == CivilFromDays(LocalTime(date) \div MinPerDay)[1]
getMonth(date) == CivilFromDays(LocalTime(date) \div MinPerDay)[2] - 1
getDate(date) == CivilFromDays(LocalTime(date) \div MinPerDay)[3]

\* getDay: 0 is Sunday; 1970-01-01 was a Thursday.
getDay(date) == ((LocalTime(date) \div MinPerDay) + 4) % 7

\* date.setDate(n): the local day of the month is replaced, the local time
\* of day is kept; the result is the new time value.
setDate(date, n) ==
    Once({ MakeDay(getFullYear(d), getMonth(d), k) * MinPerDay
               + (LocalTime(d) % MinPerDay) - tz : d \in {date}, k \in {n} })

-----------------------------------------------------------------------------
(* Helpers of the component *)

formatDateToYYYYMMDD(date) ==
    Once({ ISODate(DateUTC(getFullYear(d), getMonth(d), getDate(d))) : d \in {date} })

\* getStartOfWeek without the adjustment for Sunday (day 0).
getStartOfWeek_NoSundayCase(date) ==
    Once({ setDate(d, getDate(d) - (day - 1)) : d \in {date}, day \in {getDay(date)} })

\* date.setDate(diff) also moves the argument; the callers do not use it again.
getStartOfWeek(date) ==
    Once({ setDate(d, getDate(d) - (IF day = 0 THEN 6 ELSE day - 1)) :
               d \in {date}, day \in {getDay(date)} })

generateWeekDates(startOfWeek) ==
    Once({ [i \in 1..7 |-> setDate(s, getDate(s) + (i - 1))] : s \in {startOfWeek} })

\* const correctedDate = new Date(selectedDate); correctedDate.setDate(getDate() + 1)
CorrectedDate(sel) ==
    Once({ setDate(correctedDate, getDate(correctedDate) + 1) :
               correctedDate \in {NewDate(sel)} })

\* The week the component renders and fetches for a selectedDate string.
WeekDates(sel) == generateWeekDates(getStartOfWeek(CorrectedDate(sel)))

\* The keys the component uses for that week: weekDates.map(formatDateToYYYYMMDD).
FormattedWeek(sel) ==
    Once({ [i \in 1..7 |-> formatDateToYYYYMMDD(w[i])] : w \in {WeekDates(sel)} })

\* The rows of a render (lines 144-145): each date of the week and the
\* formattedDate its row is keyed by.
RenderRows(sel) ==
    Once({ [i \in 1..7 |-> [date |-> w[i],
                            formattedDate |-> formatDateToYYYYMMDD(w[i])]] :
               w \in {WeekDates(sel)} })

Directions == {"next", "previous"}

\* The string navigateWeek(direction) passes to setSelectedDate.
NavigateTarget(sel, direction) ==
    Once({ formatDateToYYYYMMDD(
               setDate(newDate,
                       getDate(newDate) + (IF direction = "next" THEN 7 ELSE 0 - 7))) :
               newDate \in {NewDate(sel)} })


-----------------------------------------------------------------------------
(* Date harness: the date helpers applied to bounded inputs *)

HDates == {CivilFromDays(d) : d \in HFirstDay..(HFirstDay + HSpan)}

\* Instants at which resetToToday is pressed: shortly after a UTC midnight,
\* so that the local calendar day differs between zones.
Nows == {NewDate(<<2024, 6, 19>>) + 30}

\* The string resetToToday passes to setSelectedDate at instant now.
ResetTarget(now) == formatDateToYYYYMMDD(now)

EmptyMap == [d \in {} |-> <<>>]
NoResp == [st |-> "pending"]
NoLast == [kind |-> "none"]

\* The component as parked while the date harness runs.
CompParked ==
    /\ selectedDate = <<2024, 6, 12>>
    /\ newTask = <<>>
    /\ tasksByDate = EmptyMap
    /\ weekDates = RenderRows(selectedDate)
    /\ crashed = FALSE
    /\ fetches = <<>>
    /\ ops = <<>>
    /\ srvTasks = <<>>
    /\ srvNextId = 1
    /\ failures = 0
    /\ calls = 0
    /\ selects = 0
    /\ last = NoLast

HInit ==
    /\ tz \in TZOffsets
    /\ hOrig \in HDates
    /\ hArg = hOrig
    /\ hTrace = <<>>
    /\ hWeek = FormattedWeek(hArg)
    /\ CompParked

HNavigate(direction) ==
    /\ Len(hTrace) < MaxNav
    /\ hArg' = NavigateTarget(hArg, direction)
    /\ hTrace' = Append(hTrace, direction)
    /\ hWeek' = FormattedWeek(hArg')
    /\ UNCHANGED <<tz, hOrig, compVars>>

HResetToToday(now) ==
    /\ hTrace # <<>>
    /\ hArg' = ResetTarget(now)
    /\ hOrig' = hArg'
    /\ hTrace' = <<>>
    /\ hWeek' = FormattedWeek(hArg')
    /\ UNCHANGED <<tz, compVars>>

HNext ==
    \/ \E direction \in Directions : HNavigate(direction)
    \/ \E now \in Nows : HResetToToday(now)

SpecDate == HInit /\ [][HNext]_vars

-----------------------------------------------------------------------------
(* The component and the remote task service *)

\* Bounds of the component model.
MaxTasks == 2      \* tasks the service ever holds (identifiers 1..MaxTasks)
MaxOps == 2        \* add/toggle/delete calls awaiting their response at once
MaxCalls == 2      \* add/toggle/delete calls issued in one behaviour
MaxSelects == 1    \* setSelectedDate calls in one behaviour
MaxFailures == 1   \* remote calls that fail in one behaviour

\* Zone offsets, reference date and typed names the component model
\* explores; the rows of the week whose Add button is pressed, and the rows
\* whose getTasksByDate request may fail.
CompTZOffsets == {0 - 300}
StartDate == <<2024, 6, 12>>
Whitespace == {" ", "\t", "\n"}
Inputs == {<<" ">>, <<" ", "a">>}
AddRows == {1}
FailRows == {1, 7}

\* The task the service holds when the component mounts.
SeedTask ==
    [id |-> 1, name |-> <<"s">>, completed |-> FALSE, date |-> <<2024, 6, 10>>]

Range(f) == {f[x] : x \in DOMAIN f}

\* String.prototype.trim on a string given as its sequence of characters.
RECURSIVE TrimStart(_)
TrimStart(s) ==
    IF s # <<>> /\ Head(s) \in Whitespace THEN TrimStart(Tail(s)) ELSE s

RECURSIVE TrimEnd(_)
TrimEnd(s) ==
    IF s # <<>> /\ s[Len(s)] \in Whitespace
        THEN TrimEnd(SubSeq(s, 1, Len(s) - 1))
        ELSE s

\* The test "if (newTask)" in place of "if (newTask.trim())".
trim_Identity(s) == s

trim(s) == TrimEnd(TrimStart(s))

\* prevTasksByDate[date] || []
Entry(m, date) == IF date \in DOMAIN m THEN m[date] ELSE <<>>

\* { ...m, [date]: list }
Put(m, date, list) ==
    [k \in DOMAIN m \cup {date} |-> IF k = date THEN list ELSE m[k]]

RemoveAt(s, j) == [k \in 1..(Len(s) - 1) |-> IF k < j THEN s[k] ELSE s[k + 1]]

SetAt(s, j, v) == [k \in 1..Len(s) |-> IF k = j THEN v ELSE s[k]]

Ids(list) == {list[k].id : k \in 1..Len(list)}

\* The remote service (apiService and the backend behind it).
SrvTasksByDate(date) == SelectSeq(srvTasks, LAMBDA t : t.date = date)

SrvHas(id) == \E k \in 1..Len(srvTasks) : srvTasks[k].id = id

SrvToggled(id) ==
    [k \in 1..Len(srvTasks) |->
        IF srvTasks[k].id = id
            THEN [srvTasks[k] EXCEPT !.completed = ~srvTasks[k].completed]
            ELSE srvTasks[k]]

SrvTask(list, id) == list[CHOOSE k \in 1..Len(list) : list[k].id = id]

\* The state updaters of the three handlers and of fetchTasksForWeek.
\* [response, ...(prevTasksByDate[formattedDate] || [])]
AddUpdater_Prepends(prev, date, response) ==
    Put(prev, date, <<response>> \o Entry(prev, date))

AddUpdater(prev, date, response) ==
    Put(prev, date, Append(Entry(prev, date), response))

\* map(task => updatedTask), the comparison of ids forgotten
ToggleUpdater_ReplacesAll(prev, date, taskId, updatedTask) ==
    Put(prev, date, [k \in 1..Len(prev[date]) |-> updatedTask])

ToggleUpdater(prev, date, taskId, updatedTask) ==
    Put(prev, date,
        [k \in 1..Len(prev[date]) |->
            IF prev[date][k].id = taskId THEN updatedTask ELSE prev[date][k]])

\* filter(task => task.id === taskId), the comparison inverted
DeleteUpdater_KeepsTask(prev, date, taskId) ==
    Put(prev, date, SelectSeq(prev[date], LAMBDA task : task.id = taskId))

DeleteUpdater(prev, date, taskId) ==
    Put(prev, date, SelectSeq(prev[date], LAMBDA task : task.id # taskId))

\* tasksByDateTemp[formattedDate] = tasks
FetchStore(temp, date, tasks) == Put(temp, date, tasks)

\* setTasksByDate(prev => ({ ...prev, ...tasksByDateTemp }))
FetchResult_Merges(prev, temp) ==
    [k \in DOMAIN prev \cup DOMAIN temp |->
        IF k \in DOMAIN temp THEN temp[k] ELSE prev[k]]

\* What fetchTasksForWeek passes to setTasksByDate after the loop.
FetchResult(prev, temp) == temp

\* The updaters of toggle and delete read prevTasksByDate[taskDate].map /
\* .filter: with no entry for taskDate that is a TypeError thrown while the
\* state is computed, outside the handler's try/catch.
UpdaterThrows(prev, date) == date \notin DOMAIN prev

\* A loop that starts at the second day of the week.
NewFetch_SkipsMonday(sel) ==
    [week |-> WeekDates(sel), i |-> 2, temp |-> EmptyMap, log |-> <<>>]

\* A fetchTasksForWeek call from its start to its first await: the request
\* for the first day is out.  week is its weekDates argument, i the index of
\* the day whose request is outstanding, temp is tasksByDateTemp, and log
\* (history) records how each request of the call settled.
NewFetch(sel) ==
    [week |-> WeekDates(sel), i |-> 1, temp |-> EmptyMap, log |-> <<>>]

\* An effect whose cleanup cancels the calls still running.
AfterSelect_Cancels(sel) ==
    /\ weekDates' = RenderRows(sel)
    /\ IF sel = selectedDate
         THEN fetches' = fetches
         ELSE fetches' = <<NewFetch(sel)>>

\* The effect on [selectedDate]: runs after mount and after every change.
\* The re-render computes weekDates from the new selectedDate (lines 129-133).
AfterSelect(sel) ==
    /\ weekDates' = RenderRows(sel)
    /\ IF sel = selectedDate
         THEN fetches' = fetches
         ELSE fetches' = Append(fetches, NewFetch(sel))

Init ==
    /\ tz \in CompTZOffsets
    /\ selectedDate = StartDate
    /\ newTask = <<>>
    /\ tasksByDate = EmptyMap
    /\ weekDates = RenderRows(StartDate)
    /\ crashed = FALSE
    /\ fetches = <<NewFetch(StartDate)>>
    /\ ops = <<>>
    /\ srvTasks = <<SeedTask>>
    /\ srvNextId = 2
    /\ failures = 0
    /\ calls = 0
    /\ selects = 0
    /\ last = NoLast
    /\ hOrig = StartDate
    /\ hArg = StartDate
    /\ hTrace = <<>>
    /\ hWeek = <<>>

\* The formattedDate of each row of the current render.
Displayed == {weekDates[i].formattedDate : i \in DOMAIN weekDates}

\* History: the number of fetchTasksForWeek calls that have completed (each
\* setSelectedDate and the mount start one; the running ones are in fetches).
FetchesDone == selects + 1 - Len(fetches)

\* onChange of the input
SetNewTask(text) ==
    /\ ~crashed
    /\ text # newTask
    /\ newTask' = text
    /\ last' = NoLast
    /\ UNCHANGED <<tz, selectedDate, weekDates, tasksByDate, crashed, fetches, ops,
                   srvTasks, srvNextId, failures, calls, selects, harnessVars>>

\* handleAddTask(date) up to its await
ClickAdd(row) ==
    /\ ~crashed
    /\ LET date == weekDates[row].date
       IN  IF trim(newTask) # <<>>
            THEN /\ Len(ops) < MaxOps /\ calls < MaxCalls
                 /\ ops' = Append(ops,
                        [kind |-> "add", date |-> formatDateToYYYYMMDD(date),
                         name |-> newTask, id |-> 0, resp |-> NoResp,
                         gen |-> FetchesDone])
                 /\ calls' = calls + 1
                 /\ last' = NoLast
            ELSE /\ ops' = ops
                 /\ calls' = calls
                 /\ last' = [kind |-> "addBlank", prev |-> tasksByDate,
                             calls |-> ops]
    /\ UNCHANGED <<tz, selectedDate, weekDates, newTask, tasksByDate, crashed,
                   fetches, srvTasks, srvNextId, failures, selects, harnessVars>>

\* handleToggleCompletion(task.id, formattedDate) / handleDeleteTask(...) up
\* to the await, for a task the current render shows.
ClickTask(kind, date, k) ==
    /\ ~crashed
    /\ Len(ops) < MaxOps /\ calls < MaxCalls
    /\ calls' = calls + 1
    /\ date \in Displayed
    /\ k \in 1..Len(Entry(tasksByDate, date))
    /\ ops' = Append(ops,
            [kind |-> kind, date |-> date, name |-> <<>>,
             id |-> tasksByDate[date][k].id, resp |-> NoResp,
             gen |-> FetchesDone])
    /\ last' = NoLast
    /\ UNCHANGED <<tz, selectedDate, weekDates, newTask, tasksByDate, crashed,
                   fetches, srvTasks, srvNextId, failures, selects, harnessVars>>

\* The remote service handles call j: it creates, toggles or deletes the
\* task and answers; a toggle or delete of a task it does not have is
\* refused, and so is an add once it holds MaxTasks identifiers.
ServerAnswerOp(j) ==
    /\ ~crashed
    /\ j \in 1..Len(ops)
    /\ ops[j].resp.st = "pending"
    /\ LET op == ops[j]
       IN  CASE op.kind = "add" ->
                 LET task == [id |-> srvNextId, name |-> op.name,
                              completed |-> FALSE, date |-> op.date]
                 IN  IF srvNextId <= MaxTasks
                       THEN /\ srvTasks' = Append(srvTasks, task)
                            /\ ops' = SetAt(ops, j,
                                  [op EXCEPT !.resp = [st |-> "ok", task |-> task]])
                            /\ srvNextId' = srvNextId + 1
                       ELSE /\ srvTasks' = srvTasks
                            /\ ops' = SetAt(ops, j, [op EXCEPT !.resp = [st |-> "fail"]])
                            /\ srvNextId' = srvNextId
             [] op.kind = "toggle" ->
                 /\ IF SrvHas(op.id)
                      THEN /\ srvTasks' = SrvToggled(op.id)
                           /\ ops' = SetAt(ops, j,
                                 [op EXCEPT !.resp =
                                     [st |-> "ok",
                                      task |-> SrvTask(SrvToggled(op.id), op.id)]])
                      ELSE /\ srvTasks' = srvTasks
                           /\ ops' = SetAt(ops, j, [op EXCEPT !.resp = [st |-> "fail"]])
                 /\ srvNextId' = srvNextId
             [] op.kind = "delete" ->
                 /\ IF SrvHas(op.id)
                      THEN /\ srvTasks' = SelectSeq(srvTasks, LAMBDA t : t.id # op.id)
                           /\ ops' = SetAt(ops, j, [op EXCEPT !.resp = [st |-> "ok"]])
                      ELSE /\ srvTasks' = srvTasks
                           /\ ops' = SetAt(ops, j, [op EXCEPT !.resp = [st |-> "fail"]])
                 /\ srvNextId' = srvNextId
    /\ last' = NoLast
    /\ UNCHANGED <<tz, selectedDate, weekDates, newTask, tasksByDate, crashed, fetches,
                   failures, calls, selects, harnessVars>>

\* Call j fails on its way to the service: its promise will reject.
FailOp(j) ==
    /\ ~crashed
    /\ j \in 1..Len(ops)
    /\ ops[j].resp.st = "pending"
    /\ failures < MaxFailures
    /\ failures' = failures + 1
    /\ ops' = SetAt(ops, j, [ops[j] EXCEPT !.resp = [st |-> "fail"]])
    /\ last' = NoLast
    /\ UNCHANGED <<tz, selectedDate, weekDates, newTask, tasksByDate, crashed, fetches,
                   srvTasks, srvNextId, calls, selects, harnessVars>>

\* A catch block that clears the state.
CatchState_Clears(prev) == EmptyMap

\* The catch blocks of the handlers: console.error, no state is set.
CatchState(prev) == prev

\* The handler of call j resumes after its await with the settled promise.
DeliverOp(j) ==
    /\ ~crashed
    /\ j \in 1..Len(ops)
    /\ ops[j].resp.st # "pending"
    /\ LET op == ops[j]
           ok == op.resp.st = "ok"
           threw == ok /\ op.kind \in {"toggle", "delete"}
                       /\ UpdaterThrows(tasksByDate, op.date)
       IN  /\ ops' = RemoveAt(ops, j)
           /\ last' = [kind |-> op.kind, ok |-> ok, date |-> op.date,
                       id |-> op.id, resp |-> op.resp, prev |-> tasksByDate,
                       threw |-> threw, replaced |-> op.gen < FetchesDone]
           /\ crashed' = threw
           /\ tasksByDate' =
                 IF ~ok THEN CatchState(tasksByDate)
                 ELSE IF threw THEN tasksByDate
                 ELSE IF op.kind = "add"
                     THEN AddUpdater(tasksByDate, op.date, op.resp.task)
                 ELSE IF op.kind = "toggle"
                     THEN ToggleUpdater(tasksByDate, op.date, op.id, op.resp.task)
                 ELSE DeleteUpdater(tasksByDate, op.date, op.id)
           /\ newTask' = IF ok /\ op.kind = "add" THEN <<>> ELSE newTask
    /\ UNCHANGED <<tz, selectedDate, weekDates, fetches, srvTasks, srvNextId,
                   failures, calls, selects, harnessVars>>

\* fetchTasksForWeek call f resumes after its await.  With ok the service
\* has answered the outstanding getTasksByDate with its tasks of that day and
\* they are stored; otherwise the request failed and the error is logged.
\* Then the call issues the next day's request or, after the last day, calls
\* setTasksByDate.
SettleFetch(f, ok) ==
    /\ ~crashed
    /\ f \in 1..Len(fetches)
    /\ ok \/ (failures < MaxFailures /\ fetches[f].i \in FailRows)
    /\ failures' = IF ok THEN failures ELSE failures + 1
    /\ LET fe == fetches[f]
           formattedDate == formatDateToYYYYMMDD(fe.week[fe.i])
           tasks == SrvTasksByDate(formattedDate)
           temp == IF ok THEN FetchStore(fe.temp, formattedDate, tasks)
                         ELSE fe.temp
           log == Append(fe.log,
                     [date |-> formattedDate, ok |-> ok,
                      tasks |-> IF ok THEN tasks ELSE <<>>])
       IN  IF fe.i < Len(fe.week)
             THEN /\ fetches' = SetAt(fetches, f,
                        [fe EXCEPT !.i = fe.i + 1, !.temp = temp, !.log = log])
                  /\ tasksByDate' = tasksByDate
                  /\ last' = NoLast
             ELSE /\ fetches' = RemoveAt(fetches, f)
                  /\ tasksByDate' = FetchResult(tasksByDate, temp)
                  /\ last' = [kind |-> "fetch", ok |-> TRUE, log |-> log,
                              prev |-> tasksByDate]
    /\ UNCHANGED <<tz, selectedDate, weekDates, newTask, crashed, ops, srvTasks,
                   srvNextId, calls, selects, harnessVars>>

\* navigateWeek(direction), and the effect its setSelectedDate triggers
NavigateWeek(direction) ==
    /\ ~crashed
    /\ selects < MaxSelects
    /\ selects' = selects + 1
    /\ selectedDate' = NavigateTarget(selectedDate, direction)
    /\ AfterSelect(NavigateTarget(selectedDate, direction))
    /\ last' = NoLast
    /\ UNCHANGED <<tz, newTask, tasksByDate, crashed, ops, srvTasks,
                   srvNextId, failures, calls, harnessVars>>

\* resetToToday() pressed at instant now, and the effect it triggers
ResetToToday(now) ==
    /\ ~crashed
    /\ selects < MaxSelects
    /\ selects' = selects + 1
    /\ selectedDate' = ResetTarget(now)
    /\ AfterSelect(ResetTarget(now))
    /\ last' = NoLast
    /\ UNCHANGED <<tz, newTask, tasksByDate, crashed, ops, srvTasks,
                   srvNextId, failures, calls, harnessVars>>

Next ==
    \/ \E text \in Inputs : SetNewTask(text)
    \/ \E row \in AddRows : ClickAdd(row)
    \/ \E kind \in {"toggle", "delete"}, date \in Displayed, k \in 1..MaxTasks :
           ClickTask(kind, date, k)
    \/ \E j \in 1..MaxOps : ServerAnswerOp(j)
    \/ \E j \in 1..MaxOps : FailOp(j)
    \/ \E j \in 1..MaxOps : DeliverOp(j)
    \/ \E f \in 1..(MaxSelects + 1), ok \in BOOLEAN : SettleFetch(f, ok)
    \/ \E direction \in Directions : NavigateWeek(direction)
    \/ \E now \in Nows : ResetToToday(now)

Spec == Init /\ [][Next]_vars

\* The component with a user who types one name, adds on Monday, toggles
\* and moves to the next week, and a service whose calls all arrive: the
\* behaviours of Spec in which a fetch may be left waiting for a toggle.
LiveNext ==
    \/ SetNewTask(<<" ", "a">>)
    \/ ClickAdd(1)
    \/ \E date \in Displayed, k \in 1..MaxTasks : ClickTask("toggle", date, k)
    \/ \E j \in 1..MaxOps : ServerAnswerOp(j)
    \/ \E j \in 1..MaxOps : DeliverOp(j)
    \/ \E f \in 1..(MaxSelects + 1), ok \in BOOLEAN : SettleFetch(f, ok)
    \/ NavigateWeek("next")

\* Every remote request eventually resolves or fails: while a
\* fetchTasksForWeek call is waiting at its await, one eventually resumes
\* (and each call has only seven requests to make).
RequestsSettle ==
    WF_vars(\E f \in 1..(MaxSelects + 1), ok \in BOOLEAN : SettleFetch(f, ok))

SpecLive == Init /\ [][LiveNext]_vars /\ RequestsSettle


-----------------------------------------------------------------------------
(* Properties of the week window and of navigation (under SpecDate) *)

\* The calendar day number a YYYY-MM-DD string names.
DayOf(str) == DaysFromCivil(str[1], str[2], str[3])

\* 0 is Sunday, 1 is Monday.
WeekdayOf(str) == (DayOf(str) + 4) % 7

\* C1: the week window rendered for a reference date D has exactly 7
\* consecutive calendar dates, starts on a Monday and contains D's corrected
\* date (the calendar day after that of the Date built from D); for
\* D = 2024-06-12 it is 2024-06-10 .. 2024-06-16.
C1_WeekWindow ==
    /\ Len(hWeek) = 7
    /\ \A i \in 1..6 : DayOf(hWeek[i + 1]) = DayOf(hWeek[i]) + 1
    /\ WeekdayOf(hWeek[1]) = 1
    /\ DayOf(formatDateToYYYYMMDD(CorrectedDate(hArg)))
           = DayOf(formatDateToYYYYMMDD(NewDate(hArg))) + 1
    /\ formatDateToYYYYMMDD(CorrectedDate(hArg)) \in Range(hWeek)
    /\ hArg = <<2024, 6, 12>> => hWeek = [i \in 1..7 |-> <<2024, 6, 9 + i>>]

\* A window whose corrected date is a Sunday, the day getStartOfWeek treats
\* specially: Saturday 2024-06-15 east of Greenwich.
C1_Witness ==
    /\ hArg = <<2024, 6, 15>>
    /\ tz = 60
    /\ getDay(CorrectedDate(hArg)) = 0
    /\ hWeek[1] = <<2024, 6, 10>>
    /\ hWeek[7] = <<2024, 6, 16>>

\* C2: the 7 dates derived for a reference date D contain D's own calendar
\* day, in every zone and also when D is a Sunday.
C2_WeekContainsReferenceDay == hArg \in Range(hWeek)

\* C3: navigateWeek('next') followed by navigateWeek('previous') returns the
\* reference date to its original value.
C3_NextThenPreviousReturns ==
    hTrace = <<"next", "previous">> => hArg = hOrig

\* C4: navigateWeek('next') moves the reference date exactly 7 days forward
\* and navigateWeek('previous') exactly 7 days back.
C4_NavigateShiftsSevenDays ==
    /\ hTrace = <<"next">> => DayOf(hArg) = DayOf(hOrig) + 7
    /\ hTrace = <<"previous">> => DayOf(hArg) = DayOf(hOrig) - 7

-----------------------------------------------------------------------------
(* Properties of the task synchroniser (under Spec) *)

\* Every date other than date has the same entry (or none) in both maps.
OthersUnchanged(before, after, date) ==
    \A d \in (DOMAIN before \cup DOMAIN after) \ {date} :
        /\ d \in DOMAIN before
        /\ d \in DOMAIN after
        /\ after[d] = before[d]

HandlerKinds == {"add", "toggle", "delete"}

\* C5: after a successful delete of task T on date d, T is absent from the
\* list of d and the list of every other date is unchanged, whatever happened
\* to the state between the click and the response.
C5_DeleteRemovesOnlyTask ==
    (last.kind = "delete" /\ last.ok) =>
        /\ last.id \notin Ids(Entry(tasksByDate, last.date))
        /\ OthersUnchanged(last.prev, tasksByDate, last.date)

\* A delete applied after a week fetch replaced the state since the click,
\* with the task still listed when the response arrived.
C5_Witness ==
    /\ last.kind = "delete"
    /\ last.ok
    /\ last.replaced
    /\ last.id \in Ids(Entry(last.prev, last.date))
    /\ \E d \in DOMAIN tasksByDate : d # last.date

\* C6: after a successful add for date d the returned task is the last
\* element of the list of d, the tasks that were there keep their order in
\* front of it, and the entry of every other date is unchanged.
C6_AddAppends ==
    (last.kind = "add" /\ last.ok) =>
        LET old == Entry(last.prev, last.date)
        IN  /\ last.date \in DOMAIN tasksByDate
            /\ Len(tasksByDate[last.date]) = Len(old) + 1
            /\ tasksByDate[last.date][Len(old) + 1] = last.resp.task
            /\ \A k \in 1..Len(old) : tasksByDate[last.date][k] = old[k]
            /\ OthersUnchanged(last.prev, tasksByDate, last.date)

\* An add appended behind a task already listed, next to other dates.
C6_Witness ==
    /\ last.kind = "add"
    /\ last.ok
    /\ Len(Entry(last.prev, last.date)) >= 1
    /\ \E d \in DOMAIN last.prev : d # last.date

\* C7: handleAddTask with an empty or whitespace-only pending name issues no
\* remote call and leaves the state unchanged: no add call ever carries such
\* a name, and the press itself changes neither the calls nor the state.
C7_BlankAddIsNoOp ==
    /\ \A j \in 1..Len(ops) :
          ops[j].kind = "add" =>
              \E c \in 1..Len(ops[j].name) : ops[j].name[c] \notin Whitespace
    /\ last.kind = "addBlank" =>
          /\ tasksByDate = last.prev
          /\ ops = last.calls

\* Add pressed on a whitespace-only name.
C7_Witness ==
    /\ last.kind = "addBlank"
    /\ newTask = <<" ">>

\* C8: when an add, toggle or delete call fails, the state is what it was
\* before and no error state is entered.
C8_FailureLeavesState ==
    (last.kind \in HandlerKinds /\ ~last.ok) =>
        /\ tasksByDate = last.prev
        /\ ~crashed

\* A failed call settling while tasks are listed.
C8_Witness ==
    /\ last.kind \in HandlerKinds
    /\ ~last.ok
    /\ \E d \in DOMAIN tasksByDate : tasksByDate[d] # <<>>

\* C9: on a successful toggle of task t on date d every task of the list of
\* d whose id is t is replaced by the returned task, every other task keeps
\* its value and position, the length is unchanged, and the entries of all
\* other dates are unchanged.
C9_ToggleReplacesInPlace ==
    (last.kind = "toggle" /\ last.ok) =>
        LET old == Entry(last.prev, last.date)
            new == Entry(tasksByDate, last.date)
        IN  /\ Len(new) = Len(old)
            /\ \A k \in 1..Len(old) :
                  new[k] = IF old[k].id = last.id THEN last.resp.task ELSE old[k]
            /\ OthersUnchanged(last.prev, tasksByDate, last.date)

\* A toggle applied to a list of two tasks.
C9_Witness ==
    /\ last.kind = "toggle"
    /\ last.ok
    /\ Len(Entry(last.prev, last.date)) >= 2
    /\ last.id \in Ids(last.prev[last.date])
    /\ tasksByDate # last.prev

\* The days of a fetch log whose request succeeded.
OkDays(log) == {log[k].date : k \in {n \in 1..Len(log) : log[n].ok}}

\* C10: a week fetch writes the state only once, after all seven requests
\* have settled, and what it writes maps exactly the days whose request
\* succeeded to the fetched lists: a failed day has no entry and no key of
\* the previous state survives.
C10_FetchWritten ==
    last.kind = "fetch" =>
        /\ Len(last.log) = 7
        /\ DOMAIN tasksByDate = OkDays(last.log)
        /\ \A k \in 1..Len(last.log) :
              last.log[k].ok => tasksByDate[last.log[k].date] = last.log[k].tasks

C10_WrittenOnce ==
    (tasksByDate' # tasksByDate) =>
        \/ last'.kind \in HandlerKinds
        \/ last'.kind = "fetch" /\ Len(fetches') = Len(fetches) - 1

C10_FetchReplacesAtomically == [](C10_FetchWritten) /\ [][C10_WrittenOnce]_vars

\* A fetch with a failed day replacing a state that held another week.
C10_Witness ==
    /\ last.kind = "fetch"
    /\ \E k \in 1..Len(last.log) : ~last.log[k].ok
    /\ DOMAIN last.prev \ DOMAIN tasksByDate # {}
    /\ DOMAIN tasksByDate # {}

-----------------------------------------------------------------------------
(* Properties of the state against the rendered week (under Spec) and of    *)
(* the format / parse round trip (under SpecDate)                           *)

\* C11: whenever no week fetch is running and the state is non-empty, its
\* keys are exactly the 7 formatted dates of the week computed from the
\* current selectedDate.
C11_KeysAreCurrentWeek ==
    (fetches = <<>> /\ DOMAIN tasksByDate # {}) => DOMAIN tasksByDate = Displayed

\* The local calendar day of a Date, as the component reads it.
LocalDay(date) == <<getFullYear(date), getMonth(date), getDate(date)>>

\* C12: formatting a date with formatDateToYYYYMMDD and parsing the string
\* again with new Date gives a Date of the same local calendar day, for each
\* date of the rendered week and in every zone.
C12_FormatParseRoundTrip ==
    \A i \in 1..7 :
        LET date == WeekDates(hArg)[i]
        IN  LocalDay(NewDate(formatDateToYYYYMMDD(date))) = LocalDay(date)

-----------------------------------------------------------------------------
(* Properties of the week fetch sequences (under Spec)                      *)

\* C13: a change of selectedDate does not cancel the week fetches still
\* running: each stays as it was and one more is started.  (The execution in
\* which the earlier one completes last and leaves its week in the state is
\* C13_Witness.)
C13_StaleFetchNotCancelled ==
    [][(selectedDate' # selectedDate) =>
           /\ Len(fetches') = Len(fetches) + 1
           /\ SubSeq(fetches', 1, Len(fetches)) = fetches]_vars

\* The fetch of the first week completed after the fetch of the new week:
\* no fetch is running, the state holds the first week's days and its task,
\* and none of the days the render shows.
C13_Witness ==
    /\ selects >= 1
    /\ fetches = <<>>
    /\ last.kind = "fetch"
    /\ last.log[1].date = FormattedWeek(StartDate)[1]
    /\ DOMAIN tasksByDate = Range(FormattedWeek(StartDate))
    /\ DOMAIN tasksByDate \cap Displayed = {}
    /\ SeedTask.id \in Ids(tasksByDate[SeedTask.date])

\* The dates of a fetch log run day by day from a Monday.
MondayOnwards(log) ==
    /\ log # <<>> => WeekdayOf(log[1].date) = 1
    /\ \A k \in 1..(Len(log) - 1) : DayOf(log[k + 1].date) = DayOf(log[k].date) + 1

\* C14: within one week fetch the requests are issued in Monday-to-Sunday
\* order, one at a time: when the request of day i is outstanding, exactly
\* the requests of the days before i have settled (each for its own day, the
\* successful ones stored), none after i has been issued, and a failed
\* request is followed by the requests of the remaining days, seven in all.
C14_RequestsSequential ==
    /\ \A f \in 1..Len(fetches) :
          LET fe == fetches[f]
          IN  /\ fe.i \in 1..7
              /\ Len(fe.log) = fe.i - 1
              /\ \A k \in 1..Len(fe.log) :
                    fe.log[k].date = formatDateToYYYYMMDD(fe.week[k])
              /\ MondayOnwards(fe.log)
              /\ DOMAIN fe.temp = OkDays(fe.log)
    /\ last.kind = "fetch" =>
          /\ Len(last.log) = 7
          /\ MondayOnwards(last.log)

\* A running fetch whose Monday request failed and which has gone on to
\* Thursday's request.
C14_Witness ==
    \E f \in 1..Len(fetches) :
        /\ fetches[f].i = 4
        /\ ~fetches[f].log[1].ok
        /\ fetches[f].log[2].ok
        /\ fetches[f].log[3].ok

\* The Monday of the week rendered at mount.
StartMonday == <<2024, 6, 10>>

\* A fetchTasksForWeek call started by a change of selectedDate (one for a
\* week other than the mounted one) is running.
ChangeFetchRunning ==
    \E f \in 1..Len(fetches) : formatDateToYYYYMMDD(fetches[f].week[1]) # StartMonday

\* Such a call has just replaced the state.
ChangeFetchReplaced == last.kind = "fetch" /\ last.log[1].date # StartMonday

\* C15: if every remote request eventually resolves or fails, the fetch
\* started by a change of selectedDate eventually replaces the state, once
\* (the call is over with the replacement) and after exactly seven requests,
\* whether or not some of them failed.
C15_FetchEventuallyReplaces ==
    /\ ChangeFetchRunning ~> ChangeFetchReplaced
    /\ [][(last'.kind = "fetch" /\ last' # last) =>
              /\ Len(fetches') = Len(fetches) - 1
              /\ Len(last'.log) = 7]_vars

-----------------------------------------------------------------------------
(* Properties of the handlers racing with the week fetches (under Spec)     *)

\* C16: whenever the success response of a toggle or delete for date d is
\* applied, the state has an entry for d and the update raises no error,
\* also when a week fetch replaced the state between click and response.
C16_ToggleDeleteEntryExists ==
    (last.kind \in {"toggle", "delete"} /\ last.ok) =>
        /\ last.date \in DOMAIN last.prev
        /\ ~last.threw
        /\ ~crashed

\* The add call that created task id has been answered by the service and
\* its response has not yet been applied.
AddInFlight(id) ==
    \E j \in 1..Len(ops) :
        /\ ops[j].kind = "add"
        /\ ops[j].resp.st = "ok"
        /\ ops[j].resp.task.id = id

\* C17: while selectedDate has not changed, a task that was added (its
\* response applied) and has not been deleted is in the list of its date,
\* whatever week fetch completed since.
C17_AddedTaskNeverLost ==
    selects = 0 =>
        \A k \in 1..Len(srvTasks) :
            (srvTasks[k].id # SeedTask.id /\ ~AddInFlight(srvTasks[k].id)) =>
                srvTasks[k].id \in Ids(Entry(tasksByDate, srvTasks[k].date))

\* The delete of task id has succeeded at the service and its response has
\* been applied.
DeleteApplied(id) ==
    /\ id < srvNextId
    /\ ~SrvHas(id)
    /\ ~\E j \in 1..Len(ops) :
           ops[j].kind = "delete" /\ ops[j].id = id /\ ops[j].resp.st = "ok"

\* C18: once the delete of task T has succeeded and been applied, T is in
\* no list of the state again, neither through a late toggle response nor
\* through a week fetch that read T's day before the delete.
C18_DeletedTaskNeverReappears ==
    \A id \in 1..MaxTasks :
        DeleteApplied(id) =>
            \A d \in DOMAIN tasksByDate : id \notin Ids(tasksByDate[d])

\* C19: no list of the state holds two tasks with the same id (the service
\* gives every added task a fresh id), also when the add response arrives
\* after a week fetch that already returned the new task.
C19_NoDuplicateIds ==
    \A d \in DOMAIN tasksByDate :
        Cardinality(Ids(tasksByDate[d])) = Len(tasksByDate[d])

=============================================================================
